---- MODULE Spec2Model ----
(***************************************************************************)
(* Model of the video-evaluation web client: the Home page component       *)
(* (app/page.tsx), the /api/transcribe route (app/api/transcribe/route.ts) *)
(* and the PDF report renderer (components/report.tsx).                     *)
(*                                                                         *)
(* Optional values (null, undefined, an absent JSON field) are sequences   *)
(* of length 0 or 1: None is <<>> and Some(x) is <<x>>.                     *)
(***************************************************************************)
EXTENDS Integers, Sequences, FiniteSets, TLC

VARIABLES
    selectedFile,         \* useState<File | null>
    videoUrl,             \* useState<string>
    isUploading,          \* useState(false)
    isTranscribing,       \* useState(false)
    transcriptionResult,  \* useState<TranscriptionResponse | null>
    error,                \* useState<string>
    duration,             \* useState<string>
    requiredSkills,       \* useState<RequiredSkill[]>
    newSkill,             \* useState<string>
    uploads,              \* fetch("/api/upload") calls in flight
    analyses,             \* fetch("/api/transcribe") calls in flight, with the route's progress
    requestsSent,         \* number of fetches the page has issued so far
    returnedUrls,         \* URLs the upload endpoint has returned so far
    dashboard,            \* what Home last rendered for the results section
    report                \* what PDFReport last rendered

vars == <<selectedFile, videoUrl, isUploading, isTranscribing,
          transcriptionResult, error, duration, requiredSkills, newSkill,
          uploads, analyses, requestsSent, returnedUrls, dashboard, report>>

pageVars == <<selectedFile, videoUrl, isUploading, isTranscribing,
              transcriptionResult, error, duration, requiredSkills, newSkill>>

(***************************************************************************)
(* Bounds                                                                  *)
(***************************************************************************)
MaxRequests == 3
MaxSkills == 1
MaxSkillRows == 2
MaxTopics == 2
MaxEditSkills == 3
MaxRouteRequests == 2

(***************************************************************************)
(* Optional values                                                         *)
(***************************************************************************)
None == <<>>
Some(x) == <<x>>
IsSome(o) == o # <<>>
Get(o) == o[1]

(***************************************************************************)
(* Inputs                                                                  *)
(***************************************************************************)
\* The page never inspects the file, only whether one is selected
Files == {"a.mp4"}
Urls == {"https://cdn/a", "https://cdn/b"}
NoFile == "null"
\* What the user can type in the skill input: text is a sequence of
\* characters, so that trim() is computed and not assumed.
SkillInputs == {<<>>, <<" ">>, <<" ", "S", " ">>}

(***************************************************************************)
(* The Result Model (interface TranscriptionResponse)                      *)
(***************************************************************************)
Segment(s, e) == [start_time |-> s, end_time |-> e]

\* A number n of the model stands for the JavaScript number n / RatingUnit,
\* so that ratings such as 2.5 and 0.125 are exact.
RatingUnit == 8

\* The texts the service sends with a skill
SkillLevel(n) == IF n = "R" THEN "Expert" ELSE "Intermediate"
SkillRatingText(n) == IF n = "R" THEN "Excellent" ELSE "Good"
SkillRatingScore(n) == IF n = "R" THEN 5 * RatingUnit ELSE 4 * RatingUnit

Skill(n, req, avail) ==
    [skill_name |-> n, is_required |-> req, availability_status |-> avail,
     level |-> SkillLevel(n), rating_text |-> SkillRatingText(n),
     rating_score |-> SkillRatingScore(n)]

\* A skill the service rated with the given rating_score
RatedSkill(n, req, avail, score) ==
    [Skill(n, req, avail) EXCEPT !.rating_score = score]

SkillNames == {"R", "S"}
Skills == {Skill(n, req, avail) : n \in SkillNames, req \in BOOLEAN,
                                  avail \in {"Available", "Not Available"}}

\* technical_skills: the skills array and the two scores may be missing
TechnicalSkills(skills, depth, breadth) ==
    [skills |-> skills, depth_in_core_topics |-> depth,
     breadth_of_tech_stack |-> breadth]

\* communication_skills: the rating may be missing
CommunicationSkills(rating) == [rating |-> rating]

\* feedback: each nested object and each score is optional
Feedback(ts, cs, ca, sp, qs, cl) ==
    [technical_skills |-> ts, communication_skills |-> cs,
     content_analysis |-> ca, speaking_patterns |-> sp,
     quality_score |-> qs, confidence_level |-> cl,
     key_topics |-> None, recommendations |-> None,
     actionable_insights |-> None]

\* feedback with its three string arrays, each of which may be missing
WithLists(fb, topics, recs, insights) ==
    [fb EXCEPT !.key_topics = topics, !.recommendations = recs,
               !.actionable_insights = insights]

Result(tr, fb) == [transcription |-> tr, feedback |-> fb]

(***************************************************************************)
(* Pure helpers of page.tsx and report.tsx                                 *)
(***************************************************************************)
IsSpace(c) == c = " "

RECURSIVE TrimStart(_)
TrimStart(s) ==
    IF s # <<>> /\ IsSpace(Head(s)) THEN TrimStart(Tail(s)) ELSE s

RECURSIVE TrimEnd(_)
TrimEnd(s) ==
    IF s # <<>> /\ IsSpace(s[Len(s)]) THEN TrimEnd(SubSeq(s, 1, Len(s) - 1)) ELSE s

\* String.prototype.trim
trim(s) == TrimEnd(TrimStart(s))

RECURSIVE SumSegments(_)
SumSegments(segs) ==
    IF segs = <<>> THEN 0
    ELSE (Head(segs).end_time - Head(segs).start_time) + SumSegments(Tail(segs))

\* getDuration throws a TypeError when the transcription array is missing
\* (undefined.reduce); the outcome is [threw, value].
getDuration(res) ==
    IF ~IsSome(res) THEN [threw |-> FALSE, value |-> 0]
    ELSE IF ~IsSome(Get(res).transcription) THEN [threw |-> TRUE, value |-> 0]
    ELSE [threw |-> FALSE, value |-> SumSegments(Get(Get(res).transcription))]

padStart2(str) == IF Len(str) < 2 THEN "0" \o str ELSE str

formatTime(seconds) ==
    ToString(seconds \div 60) \o ":" \o padStart2(ToString(seconds % 60))

\* skills.filter(s => s.is_required && s.availability_status !== "Not Available")
CoveredSkills(skills) ==
    SelectSeq(skills, LAMBDA s : s.is_required /\ s.availability_status # "Not Available")

RequiredOnly(skills) == SelectSeq(skills, LAMBDA s : s.is_required)

OtherOnly(skills) == SelectSeq(skills, LAMBDA s : ~s.is_required)

\* Math.round of the rational num / den (den > 0): the nearest integer,
\* a half rounds up
Round(num, den) == (2 * num + den) \div (2 * den)

\* (value || 0): a missing number and 0 both give 0
OrZero(o) == IF IsSome(o) THEN Get(o) ELSE 0

\* {n}% in JSX
Pct(n) == ToString(n) \o "%"

\* The width of a progress bar, in percent, as the rational num / den
Ratio(num, den) == <<num, den>>

Max(a, b) == IF a >= b THEN a ELSE b

(***************************************************************************)
(* The renderers.  A view is what a render produced: threw is TRUE when    *)
(* the render function raised a TypeError (a property read on undefined);  *)
(* otherwise sections is the set of sections produced, quality the quality *)
(* percentage of the overview card / executive summary, assessment the     *)
(* rows of the assessment table (None for a row that is not rendered),     *)
(* skillsTable the rows of the skills table and skillGroups the groups of  *)
(* the technical-skills detail, in the order they are rendered, lists the   *)
(* Key Topics, Recommendations and Actionable Insights blocks and duration *)
(* the text printed next to "Duration".                                    *)
(***************************************************************************)
NoRows ==
    [technical |-> None, communication |-> None, contentQuality |-> None,
     overall |-> None, coverage |-> None]

\* A block of the lists is None when it is not rendered at all; otherwise it
\* is the items it shows and the message it shows in their place
NoLists ==
    [keyTopics |-> None, recommendations |-> None, insights |-> None]

Threw ==
    [threw |-> TRUE, sections |-> {}, quality |-> "", assessment |-> NoRows,
     skillsTable |-> <<>>, skillGroups |-> <<>>, lists |-> NoLists,
     duration |-> ""]

View(secs, quality, assessment, table, groups, lists, dur) ==
    [threw |-> FALSE, sections |-> secs, quality |-> quality,
     assessment |-> assessment, skillsTable |-> table, skillGroups |-> groups,
     lists |-> lists, duration |-> dur]

\* Nothing is rendered while transcriptionResult is null
EmptyView == View({}, "", NoRows, <<>>, <<>>, NoLists, "")

HasSkillsArray(fb) ==
    IsSome(fb.technical_skills) /\ IsSome(Get(fb.technical_skills).skills)

(***************************************************************************)
(* Home: the Quality Score card and the Tabular Assessment                 *)
(***************************************************************************)
\* Variant: the card showing the score on the 0-5 scale as a /5*100
\* percentage of the rounded score
QualityCardRoundedFirst(fb) ==
    IF IsSome(fb.quality_score)
    THEN Pct(Round(Get(fb.quality_score), RatingUnit) * 20)
    ELSE "NaN%"

\* Math.round(feedback.quality_score * 20): no fallback, a missing score
\* gives NaN
QualityCard(fb) ==
    IF IsSome(fb.quality_score)
    THEN Pct(Round(Get(fb.quality_score) * 20, RatingUnit))
    ELSE "NaN%"

\* Variant: the bar drawn from the depth score alone
DashboardTechnicalRowDepthBar(fb) ==
    IF IsSome(fb.technical_skills)
    THEN LET ts == Get(fb.technical_skills)
             sum == OrZero(ts.depth_in_core_topics) + OrZero(ts.breadth_of_tech_stack) IN
         [score |-> Pct(Round(sum * 20, 2 * RatingUnit)),
          width |-> Some(Ratio(OrZero(ts.depth_in_core_topics) * 100, 5 * RatingUnit))]
    ELSE [score |-> "N/A", width |-> None]

\* Technical Skills row: (((depth || 0) + (breadth || 0)) / 2) * 20 rounded,
\* bar width (((depth || 0) + (breadth || 0)) / 10) * 100
DashboardTechnicalRow(fb) ==
    IF IsSome(fb.technical_skills)
    THEN LET ts == Get(fb.technical_skills)
             sum == OrZero(ts.depth_in_core_topics) + OrZero(ts.breadth_of_tech_stack) IN
         [score |-> Pct(Round(sum * 20, 2 * RatingUnit)),
          width |-> Some(Ratio(sum * 100, 10 * RatingUnit))]
    ELSE [score |-> "N/A", width |-> None]

\* rating >= 4 ? "Excellent" : rating >= 3 ? "Good" : "Fair"
DashboardCommunicationLabel(rating) ==
    IF rating >= 4 * RatingUnit THEN "Excellent"
    ELSE IF rating >= 3 * RatingUnit THEN "Good"
    ELSE "Fair"

\* Variant: the score cell without the (rating || 0) fallback
DashboardCommunicationRowNoFallback(fb) ==
    IF IsSome(fb.communication_skills)
    THEN LET cs == Get(fb.communication_skills) IN
         [score |-> IF IsSome(cs.rating)
                    THEN Pct(Round(Get(cs.rating) * 100, 5 * RatingUnit))
                    ELSE "NaN%",
          width |-> Some(Ratio(OrZero(cs.rating) * 100, 5 * RatingUnit)),
          rating |-> IF OrZero(cs.rating) # 0
                     THEN DashboardCommunicationLabel(OrZero(cs.rating))
                     ELSE "N/A"]
    ELSE [score |-> "N/A", width |-> None, rating |-> "N/A"]

\* Communication row: ((rating || 0) / 5) * 100 rounded; the label cell is
\* guarded by communication_skills?.rating, so a rating of 0 shows "N/A"
DashboardCommunicationRow(fb) ==
    IF IsSome(fb.communication_skills)
    THEN LET r == OrZero(Get(fb.communication_skills).rating) IN
         [score |-> Pct(Round(r * 100, 5 * RatingUnit)),
          width |-> Some(Ratio(r * 100, 5 * RatingUnit)),
          rating |-> IF r # 0 THEN DashboardCommunicationLabel(r) ELSE "N/A"]
    ELSE [score |-> "N/A", width |-> None, rating |-> "N/A"]

\* Variant: the Content Quality label with the three labels of the
\* Communication row
DashboardQualityLabelNoPoor(score) ==
    IF score >= 4 * RatingUnit THEN "Excellent"
    ELSE IF score >= 3 * RatingUnit THEN "Good"
    ELSE "Fair"

\* score >= 4 ? "Excellent" : >= 3 ? "Good" : >= 2 ? "Fair" : "Poor"
DashboardQualityLabel(score) ==
    IF score >= 4 * RatingUnit THEN "Excellent"
    ELSE IF score >= 3 * RatingUnit THEN "Good"
    ELSE IF score >= 2 * RatingUnit THEN "Fair"
    ELSE "Poor"

\* Content Quality row: (quality_score || 0) * 20 rounded
DashboardContentQualityRow(fb) ==
    LET q == OrZero(fb.quality_score) IN
    [score |-> Pct(Round(q * 20, RatingUnit)),
     width |-> Some(Ratio(q * 20, RatingUnit)),
     rating |-> DashboardQualityLabel(q)]

\* Overall Assessment row: ((confidence_level || 0) / 5) * 100 rounded
DashboardOverallRow(fb) ==
    LET c == OrZero(fb.confidence_level) IN
    [score |-> Pct(Round(c * 100, 5 * RatingUnit)),
     width |-> Some(Ratio(c * 100, 5 * RatingUnit))]

\* Required Skills Coverage row: the denominator is the length of the
\* page's requiredSkills list
DashboardCoverageRow(fb, reqSkills) ==
    IF HasSkillsArray(fb)
    THEN LET covered == Len(CoveredSkills(Get(Get(fb.technical_skills).skills)))
             den == Max(1, Len(reqSkills)) IN
         [score |-> Pct(Round(covered * 100, den)),
          width |-> Some(Ratio(covered * 100, den)),
          rating |-> ToString(covered) \o " / " \o ToString(Len(reqSkills)),
          comment |-> IF Len(reqSkills) = 0 THEN "No required skills specified"
                      ELSE ToString(covered) \o " out of " \o ToString(Len(reqSkills))
                           \o " required skills covered"]
    ELSE [score |-> "N/A", width |-> None, rating |-> "N/A",
          comment |-> IF Len(reqSkills) = 0 THEN "No required skills specified"
                      ELSE "undefined out of " \o ToString(Len(reqSkills))
                           \o " required skills covered"]

DashboardAssessment(fb, reqSkills) ==
    [technical |-> Some(DashboardTechnicalRow(fb)),
     communication |-> Some(DashboardCommunicationRow(fb)),
     contentQuality |-> Some(DashboardContentQualityRow(fb)),
     overall |-> Some(DashboardOverallRow(fb)),
     coverage |-> Some(DashboardCoverageRow(fb, reqSkills))]

\* Variant: the comment cell reading technical_skills.skills without the
\* optional chaining
CoverageCommentUnguarded(fb, reqSkills) ==
    /\ Len(reqSkills) # 0
    /\ ~(IsSome(fb.technical_skills) /\ IsSome(Get(fb.technical_skills).skills))

\* The Required Skills Coverage comment cell (page.tsx 955-967):
\* technical_skills?.skills.filter(...) short-circuits when technical_skills
\* is missing, and reads .filter of undefined when only skills is missing.
CoverageCommentThrows(fb, reqSkills) ==
    /\ Len(reqSkills) # 0
    /\ IsSome(fb.technical_skills)
    /\ ~IsSome(Get(fb.technical_skills).skills)

(***************************************************************************)
(* Home: the Skills Assessment Table and the technical-skills detail       *)
(***************************************************************************)
\* One <tr> of the Skills Assessment Table
\* [...Array(5)].map((_, i) => i < skill.rating_score ? filled : empty):
\* the number of filled dots
DashboardDots(skill) ==
    Cardinality({i \in 0..4 : i * RatingUnit < skill.rating_score})

\* One <tr> of the Skills Assessment Table; the Score cell shows "-" (no
\* dots, None) for a "Not Available" skill
DashboardSkillsTableRow(skill) ==
    [skill |-> skill.skill_name,
     level |-> IF skill.availability_status = "Not Available"
               THEN "Not Mentioned" ELSE skill.level,
     rating |-> IF skill.availability_status = "Not Available"
                THEN "-" ELSE skill.rating_text,
     dots |-> IF skill.availability_status = "Not Available"
              THEN None ELSE Some(DashboardDots(skill)),
     required |-> IF skill.is_required THEN "Yes" ELSE "No"]

\* Variant: the table built from the skills that were mentioned only
DashboardSkillsTableMentionedOnly(fb) ==
    IF HasSkillsArray(fb) /\ Len(Get(Get(fb.technical_skills).skills)) > 0
    THEN LET skills == SelectSeq(Get(Get(fb.technical_skills).skills),
                                 LAMBDA s : s.availability_status # "Not Available") IN
         [k \in 1..Len(skills) |-> DashboardSkillsTableRow(skills[k])]
    ELSE <<>>

\* technical_skills?.skills && skills.length > 0 && skills.map(...)
DashboardSkillsTable(fb) ==
    IF HasSkillsArray(fb) /\ Len(Get(Get(fb.technical_skills).skills)) > 0
    THEN LET skills == Get(Get(fb.technical_skills).skills) IN
         [k \in 1..Len(skills) |-> DashboardSkillsTableRow(skills[k])]
    ELSE <<>>

\* One card of the Required Skills Evaluation
DashboardRequiredCard(skill) ==
    [skill |-> skill.skill_name,
     level |-> IF skill.availability_status = "Not Available"
               THEN "Not Mentioned in Interview" ELSE skill.level,
     rating |-> IF skill.availability_status = "Not Available"
                THEN "" ELSE skill.rating_text]

\* One card of the Detected Skills
DashboardDetectedCard(skill) ==
    [skill |-> skill.skill_name, level |-> skill.level, rating |-> skill.rating_text]

\* Variant: the Detected Skills listing every skill
DashboardSkillGroupsDetectedAll(fb) ==
    IF ~HasSkillsArray(fb) THEN <<>>
    ELSE LET skills == Get(Get(fb.technical_skills).skills)
             req == RequiredOnly(skills) IN
         (IF Len(req) > 0
          THEN <<[group |-> "required",
                  rows |-> [k \in 1..Len(req) |-> DashboardRequiredCard(req[k])]]>>
          ELSE <<>>)
         \o (IF Len(skills) > 0
             THEN <<[group |-> "other",
                     rows |-> [k \in 1..Len(skills) |-> DashboardDetectedCard(skills[k])]]>>
             ELSE <<>>)

\* Technical Skills Assessment Report: skills.filter(is_required) first,
\* then skills.filter(!is_required); a group without skills is not rendered
DashboardSkillGroups(fb) ==
    IF ~HasSkillsArray(fb) THEN <<>>
    ELSE LET skills == Get(Get(fb.technical_skills).skills)
             req == RequiredOnly(skills)
             oth == OtherOnly(skills) IN
         (IF Len(req) > 0
          THEN <<[group |-> "required",
                  rows |-> [k \in 1..Len(req) |-> DashboardRequiredCard(req[k])]]>>
          ELSE <<>>)
         \o (IF Len(oth) > 0
             THEN <<[group |-> "other",
                     rows |-> [k \in 1..Len(oth) |-> DashboardDetectedCard(oth[k])]]>>
             ELSE <<>>)

\* A rendered block: the items in the order they are shown, or the message
\* shown in their place
Block(items, message) == Some([items |-> items, message |-> message])

\* list.map((item, index) => <element key={index}>{item}</element>)
Items(list) == [index \in 1..Len(list) |-> list[index]]

\* Variant: the Key Topics block without its fallback text
DashboardKeyTopicsNoFallback(fb) ==
    IF IsSome(fb.key_topics)
    THEN Block(Items(Get(fb.key_topics)), "")
    ELSE Block(<<>>, "")

\* key_topics && key_topics.length > 0 ? key_topics.map(...) : <p>No key
\* topics identified</p>
DashboardKeyTopics(fb) ==
    IF IsSome(fb.key_topics) /\ Len(Get(fb.key_topics)) > 0
    THEN Block(Items(Get(fb.key_topics)), "")
    ELSE Block(<<>>, "No key topics identified")

DashboardRecommendations(fb) ==
    IF IsSome(fb.recommendations) /\ Len(Get(fb.recommendations)) > 0
    THEN Block(Items(Get(fb.recommendations)), "")
    ELSE Block(<<>>, "No recommendations available")

DashboardActionableInsights(fb) ==
    IF IsSome(fb.actionable_insights) /\ Len(Get(fb.actionable_insights)) > 0
    THEN Block(Items(Get(fb.actionable_insights)), "")
    ELSE Block(<<>>, "No actionable insights available")

DashboardLists(fb) ==
    [keyTopics |-> DashboardKeyTopics(fb),
     recommendations |-> DashboardRecommendations(fb),
     insights |-> DashboardActionableInsights(fb)]

DashboardSections(res, fb) ==
    {"overview", "tabularAssessment"}
    \cup (IF HasSkillsArray(fb) THEN {"coverageScore"} ELSE {})
    \cup (IF HasSkillsArray(fb) /\ Len(Get(Get(fb.technical_skills).skills)) > 0
          THEN {"skillsTable"} ELSE {})
    \cup (IF IsSome(fb.technical_skills) THEN {"technicalSkills"} ELSE {})
    \cup (IF HasSkillsArray(fb)
             /\ Len(RequiredOnly(Get(Get(fb.technical_skills).skills))) > 0
          THEN {"requiredSkillsEvaluation"} ELSE {})
    \cup (IF HasSkillsArray(fb)
             /\ Len(OtherOnly(Get(Get(fb.technical_skills).skills))) > 0
          THEN {"detectedSkills"} ELSE {})
    \cup (IF IsSome(fb.communication_skills) THEN {"communicationSkills"} ELSE {})
    \cup (IF IsSome(fb.content_analysis)
          THEN {"contentAnalysis", "speakingPatterns"} ELSE {})
    \cup (IF IsSome(res.transcription) /\ Len(Get(res.transcription)) > 0
          THEN {"segments"} ELSE {})

\* The results section of Home: rendered only when transcriptionResult is
\* set.  The Duration card prints the duration state of the page.
Home(result, reqSkills, dur) ==
    IF ~IsSome(result) THEN EmptyView
    ELSE IF ~IsSome(Get(result).feedback) THEN Threw
    ELSE IF CoverageCommentThrows(Get(Get(result).feedback), reqSkills) THEN Threw
    ELSE LET fb == Get(Get(result).feedback) IN
         View(DashboardSections(Get(result), fb), QualityCard(fb),
              DashboardAssessment(fb, reqSkills), DashboardSkillsTable(fb),
              DashboardSkillGroups(fb), DashboardLists(fb), dur)

(***************************************************************************)
(* PDFReport: the Executive Summary and the Assessment Summary             *)
(***************************************************************************)
\* Executive Summary: Math.round(feedback.quality_score * 20)
ReportQualityScore(fb) ==
    IF IsSome(fb.quality_score)
    THEN Pct(Round(Get(fb.quality_score) * 20, RatingUnit))
    ELSE "NaN%"

\* Technical Skills row, rendered only when technical_skills is present
ReportTechnicalRow(fb) ==
    IF IsSome(fb.technical_skills)
    THEN LET ts == Get(fb.technical_skills)
             sum == OrZero(ts.depth_in_core_topics) + OrZero(ts.breadth_of_tech_stack) IN
         Some([score |-> Pct(Round(sum * 20, 2 * RatingUnit)),
               width |-> Some(Ratio(sum * 100, 10 * RatingUnit))])
    ELSE None

\* (rating || 0) >= 4 ? "Excellent" : (rating || 0) >= 3 ? "Good" : "Fair"
ReportCommunicationLabel(rating) ==
    IF rating >= 4 * RatingUnit THEN "Excellent"
    ELSE IF rating >= 3 * RatingUnit THEN "Good"
    ELSE "Fair"

\* Communication row, rendered only when communication_skills is present
ReportCommunicationRow(fb) ==
    IF IsSome(fb.communication_skills)
    THEN LET r == OrZero(Get(fb.communication_skills).rating) IN
         Some([score |-> Pct(Round(r * 100, 5 * RatingUnit)),
               width |-> Some(Ratio(r * 100, 5 * RatingUnit)),
               rating |-> ReportCommunicationLabel(r)])
    ELSE None

ReportQualityLabel(score) ==
    IF score >= 4 * RatingUnit THEN "Excellent"
    ELSE IF score >= 3 * RatingUnit THEN "Good"
    ELSE IF score >= 2 * RatingUnit THEN "Fair"
    ELSE "Poor"

ReportContentQualityRow(fb) ==
    LET q == OrZero(fb.quality_score) IN
    [score |-> Pct(Round(q * 20, RatingUnit)),
     width |-> Some(Ratio(q * 20, RatingUnit)),
     rating |-> ReportQualityLabel(q)]

ReportOverallRow(fb) ==
    LET c == OrZero(fb.confidence_level) IN
    [score |-> Pct(Round(c * 100, 5 * RatingUnit)),
     width |-> Some(Ratio(c * 100, 5 * RatingUnit))]

\* Required Skills Coverage row, rendered only when the skills array is
\* present: the denominator is the number of skills flagged is_required
ReportCoverageRow(fb) ==
    IF HasSkillsArray(fb)
    THEN LET skills == Get(Get(fb.technical_skills).skills)
             covered == Len(CoveredSkills(skills))
             required == Len(RequiredOnly(skills))
             den == Max(1, required) IN
         Some([score |-> Pct(Round(covered * 100, den)),
               width |-> Some(Ratio(covered * 100, den)),
               rating |-> ToString(covered) \o " / " \o ToString(required),
               comment |-> IF required = 0 THEN "No required skills specified"
                           ELSE ToString(covered) \o " out of " \o ToString(required)
                                \o " required skills covered"])
    ELSE None

ReportAssessment(fb) ==
    [technical |-> ReportTechnicalRow(fb),
     communication |-> ReportCommunicationRow(fb),
     contentQuality |-> Some(ReportContentQualityRow(fb)),
     overall |-> Some(ReportOverallRow(fb)),
     coverage |-> ReportCoverageRow(fb)]

(***************************************************************************)
(* PDFReport: the Skills Assessment Table and the technical-skills detail  *)
(***************************************************************************)
\* [1, 2, 3, 4, 5].map((dot) => dot <= skill.rating_score ? filled : empty)
ReportDots(skill) ==
    Cardinality({dot \in 1..5 : dot * RatingUnit <= skill.rating_score})

ReportSkillsTableRow(skill) ==
    [skill |-> skill.skill_name,
     level |-> IF skill.availability_status = "Not Available"
               THEN "Not Mentioned" ELSE skill.level,
     rating |-> IF skill.availability_status = "Not Available"
                THEN "-" ELSE skill.rating_text,
     dots |-> IF skill.availability_status = "Not Available"
              THEN None ELSE Some(ReportDots(skill)),
     required |-> IF skill.is_required THEN "Yes" ELSE "No"]

ReportSkillsTable(fb) ==
    IF HasSkillsArray(fb) /\ Len(Get(Get(fb.technical_skills).skills)) > 0
    THEN LET skills == Get(Get(fb.technical_skills).skills) IN
         [k \in 1..Len(skills) |-> ReportSkillsTableRow(skills[k])]
    ELSE <<>>

\* One row under "Required Skills:"
ReportRequiredRow(skill) ==
    [skill |-> skill.skill_name,
     level |-> IF skill.availability_status = "Not Available"
               THEN "Not Mentioned" ELSE skill.level,
     rating |-> IF skill.availability_status = "Not Available"
                THEN "-" ELSE skill.rating_text]

\* One row under "Other Skills Detected:"
ReportOtherRow(skill) ==
    [skill |-> skill.skill_name, level |-> skill.level, rating |-> skill.rating_text]

\* Skills Assessment: "Required Skills:" first, then "Other Skills Detected:"
ReportSkillGroups(fb) ==
    IF ~HasSkillsArray(fb) THEN <<>>
    ELSE LET skills == Get(Get(fb.technical_skills).skills)
             req == RequiredOnly(skills)
             oth == OtherOnly(skills) IN
         (IF Len(req) > 0
          THEN <<[group |-> "required",
                  rows |-> [k \in 1..Len(req) |-> ReportRequiredRow(req[k])]]>>
          ELSE <<>>)
         \o (IF Len(oth) > 0
             THEN <<[group |-> "other",
                     rows |-> [k \in 1..Len(oth) |-> ReportOtherRow(oth[k])]]>>
             ELSE <<>>)

ReportKeyTopics(fb) ==
    IF IsSome(fb.key_topics) /\ Len(Get(fb.key_topics)) > 0
    THEN Block(Items(Get(fb.key_topics)), "")
    ELSE Block(<<>>, "No key topics identified")

\* {recommendations && recommendations.length > 0 && (<View>...</View>)}
ReportRecommendations(fb) ==
    IF IsSome(fb.recommendations) /\ Len(Get(fb.recommendations)) > 0
    THEN Block(Items(Get(fb.recommendations)), "")
    ELSE None

\* {actionable_insights && actionable_insights.length > 0 && (<View>...</View>)}
ReportActionableInsights(fb) ==
    IF IsSome(fb.actionable_insights) /\ Len(Get(fb.actionable_insights)) > 0
    THEN Block(Items(Get(fb.actionable_insights)), "")
    ELSE None

ReportLists(fb) ==
    [keyTopics |-> ReportKeyTopics(fb),
     recommendations |-> ReportRecommendations(fb),
     insights |-> ReportActionableInsights(fb)]

ReportSections(fb) ==
    {"executiveSummary", "keyTopics", "assessmentSummary"}
    \cup (IF IsSome(fb.content_analysis) THEN {"contentAnalysis"} ELSE {})
    \cup (IF IsSome(fb.content_analysis) /\ IsSome(fb.speaking_patterns)
          THEN {"speakingPatterns"} ELSE {})
    \cup (IF HasSkillsArray(fb) THEN {"coverageScore"} ELSE {})
    \cup (IF HasSkillsArray(fb) /\ Len(Get(Get(fb.technical_skills).skills)) > 0
          THEN {"skillsTable"} ELSE {})
    \cup (IF IsSome(fb.technical_skills) THEN {"technicalSkills"} ELSE {})
    \cup (IF HasSkillsArray(fb)
             /\ Len(RequiredOnly(Get(Get(fb.technical_skills).skills))) > 0
          THEN {"requiredSkillsEvaluation"} ELSE {})
    \cup (IF HasSkillsArray(fb)
             /\ Len(OtherOnly(Get(Get(fb.technical_skills).skills))) > 0
          THEN {"detectedSkills"} ELSE {})
    \cup (IF IsSome(fb.communication_skills) THEN {"communicationSkills"} ELSE {})

\* PDFReport({data}): mounted by PDFDownloadButton only when a result is set.
PDFReport(result) ==
    IF ~IsSome(result) THEN EmptyView
    ELSE IF getDuration(result).threw THEN Threw
    ELSE IF ~IsSome(Get(result).feedback) THEN Threw
    ELSE LET fb == Get(Get(result).feedback) IN
         View(ReportSections(fb), ReportQualityScore(fb), ReportAssessment(fb),
              ReportSkillsTable(fb), ReportSkillGroups(fb), ReportLists(fb),
              formatTime(getDuration(result).value))

(***************************************************************************)
(* Bounded inputs of the external services                                 *)
(***************************************************************************)
FullFeedback ==
    Feedback(Some(TechnicalSkills(Some(<<Skill("R", TRUE, "Available")>>),
                                  Some(4 * RatingUnit), Some(3 * RatingUnit))),
             Some(CommunicationSkills(Some(4 * RatingUnit))),
             Some([clarity |-> "high"]), Some([pace |-> "medium"]),
             Some(4 * RatingUnit), Some(5 * RatingUnit))

\* Bodies the analysis service answers with in the page workflow: two
\* complete Result Models of different length and one without its
\* transcription array.
ResponseBodies ==
    { Result(Some(<<Segment(0, 65)>>), Some(FullFeedback)),
      Result(Some(<<Segment(0, 5), Segment(5, 9)>>), Some(FullFeedback)),
      Result(None, Some(FullFeedback)) }

\* What fetch("/api/upload") can produce: a rejected promise, a non-2xx
\* response, a 2xx response without the file object, a 2xx with a URL.
UploadResponses ==
    { [rejected |-> TRUE, ok |-> FALSE, file |-> None],
      [rejected |-> FALSE, ok |-> FALSE, file |-> None],
      [rejected |-> FALSE, ok |-> TRUE, file |-> None] }
    \cup { [rejected |-> FALSE, ok |-> TRUE, file |-> Some([url |-> u])] : u \in Urls }

\* What fetch(FASTAPI_URL/transcribe) can produce inside the route.
BackendResponses ==
    { [rejected |-> TRUE, ok |-> FALSE, body |-> None],
      [rejected |-> FALSE, ok |-> FALSE, body |-> None] }
    \cup { [rejected |-> FALSE, ok |-> TRUE, body |-> Some(b)] : b \in ResponseBodies }

\* NextResponse.json(body, {status}) as seen by the page
RouteResponse(status, body) == [rejected |-> FALSE, status |-> status, body |-> body]
Rejected == [rejected |-> TRUE, status |-> 0, body |-> None]
ResponseOk(r) == ~r.rejected /\ r.status >= 200 /\ r.status <= 299

RemoveAt(seq, i) == SubSeq(seq, 1, i - 1) \o SubSeq(seq, i + 1, Len(seq))

(***************************************************************************)
(* Home: what the JSX makes reachable                                      *)
(***************************************************************************)
\* Variant: the upload button without its disabled attribute
UploadButtonNeverDisabled == selectedFile # NoFile

\* {selectedFile && <button onClick={handleUpload} disabled={isUploading}>}
UploadButtonEnabled == selectedFile # NoFile /\ ~isUploading

\* {videoUrl && ...}: the Required Skills and Start Analysis sections
AnalysisSectionVisible == videoUrl # ""

\* <button onClick={handleTranscribe} disabled={isTranscribing}>
AnalyzeButtonEnabled == AnalysisSectionVisible /\ ~isTranscribing

\* {error && ...}
ErrorBannerShown == error # ""

\* {transcriptionResult && ...}
ResultsSectionShown == IsSome(transcriptionResult)

\* React re-renders Home (and the PDFReport it mounts) after every update.
Rerender ==
    /\ dashboard' = Some(Home(transcriptionResult', requiredSkills', duration'))
    /\ report' = Some(PDFReport(transcriptionResult'))

(***************************************************************************)
(* Initial state: the useState initial values, nothing in flight           *)
(***************************************************************************)
Init ==
    /\ selectedFile = NoFile
    /\ videoUrl = ""
    /\ isUploading = FALSE
    /\ isTranscribing = FALSE
    /\ transcriptionResult = None
    /\ error = ""
    /\ duration = "00:00"
    /\ requiredSkills = <<>>
    /\ newSkill = <<>>
    /\ uploads = <<>>
    /\ analyses = <<>>
    /\ requestsSent = 0
    /\ returnedUrls = {}
    /\ dashboard = Some(Home(None, <<>>, "00:00"))
    /\ report = Some(PDFReport(None))

(***************************************************************************)
(* Required-skills editing                                                 *)
(***************************************************************************)
\* onChange={(e) => setNewSkill(e.target.value)}
setNewSkill(text) ==
    /\ AnalysisSectionVisible
    /\ newSkill' = text
    /\ UNCHANGED <<selectedFile, videoUrl, isUploading, isTranscribing,
                   transcriptionResult, error, duration, requiredSkills,
                   uploads, analyses, requestsSent, returnedUrls>>
    /\ Rerender

\* Variant: the name appended as typed
handleAddSkillUntrimmed(limit) ==
    /\ AnalysisSectionVisible
    /\ Len(requiredSkills) < limit
    /\ IF trim(newSkill) # <<>>
       THEN /\ requiredSkills' = Append(requiredSkills, [name |-> newSkill])
            /\ newSkill' = <<>>
       ELSE UNCHANGED <<requiredSkills, newSkill>>
    /\ UNCHANGED <<selectedFile, videoUrl, isUploading, isTranscribing,
                   transcriptionResult, error, duration,
                   uploads, analyses, requestsSent, returnedUrls>>
    /\ Rerender

\* handleAddSkill while the list holds fewer than limit entries
handleAddSkillWithin(limit) ==
    /\ AnalysisSectionVisible
    /\ Len(requiredSkills) < limit
    /\ IF trim(newSkill) # <<>>
       THEN /\ requiredSkills' = Append(requiredSkills, [name |-> trim(newSkill)])
            /\ newSkill' = <<>>
       ELSE UNCHANGED <<requiredSkills, newSkill>>
    /\ UNCHANGED <<selectedFile, videoUrl, isUploading, isTranscribing,
                   transcriptionResult, error, duration,
                   uploads, analyses, requestsSent, returnedUrls>>
    /\ Rerender

handleAddSkill == handleAddSkillWithin(MaxSkills)

handleRemoveSkill(index) ==
    /\ AnalysisSectionVisible
    /\ index \in 1..Len(requiredSkills)
    /\ requiredSkills' = RemoveAt(requiredSkills, index)
    /\ UNCHANGED <<selectedFile, videoUrl, isUploading, isTranscribing,
                   transcriptionResult, error, duration, newSkill,
                   uploads, analyses, requestsSent, returnedUrls>>
    /\ Rerender

\* requiredSkills.map((skill) => skill.name)
SkillNamesOf(skills) == [k \in 1..Len(skills) |-> skills[k].name]

\* body: JSON.stringify({videoUrl, requiredSkills: [...]})
TranscribeRequestBody(url, skills) ==
    [videoUrl |-> url, requiredSkills |-> SkillNamesOf(skills)]

(***************************************************************************)
(* Upload                                                                  *)
(***************************************************************************)
\* file is event.target.files?.[0]: NoFile when the dialog was cancelled
handleFileSelect(file) ==
    /\ IF file # NoFile
       THEN selectedFile' = file /\ error' = ""
       ELSE UNCHANGED <<selectedFile, error>>
    /\ UNCHANGED <<videoUrl, isUploading, isTranscribing, transcriptionResult,
                   duration, requiredSkills, newSkill,
                   uploads, analyses, requestsSent, returnedUrls>>
    /\ Rerender

\* handleUpload up to the await: one fetch("/api/upload") is issued
handleUpload ==
    /\ UploadButtonEnabled
    /\ requestsSent < MaxRequests
    /\ selectedFile # NoFile
    /\ isUploading' = TRUE
    /\ error' = ""
    /\ uploads' = Append(uploads, [file |-> selectedFile, response |-> None])
    /\ requestsSent' = requestsSent + 1
    /\ UNCHANGED <<selectedFile, videoUrl, isTranscribing, transcriptionResult,
                   duration, requiredSkills, newSkill, analyses, returnedUrls>>
    /\ Rerender

\* The storage endpoint (or the network) settles the fetch
UploadEndpoint(i, resp) ==
    /\ i \in 1..Len(uploads)
    /\ uploads[i].response = None
    /\ uploads' = [uploads EXCEPT ![i].response = Some(resp)]
    /\ returnedUrls' = IF IsSome(resp.file) THEN returnedUrls \cup {Get(resp.file).url}
                       ELSE returnedUrls
    /\ UNCHANGED <<pageVars, analyses, requestsSent, dashboard, report>>

\* The catch branch is taken when fetch rejected, when !response.ok, and
\* when data.file.url reads a property of undefined
UploadFails(resp) == resp.rejected \/ ~resp.ok \/ ~IsSome(resp.file)

\* Variant: a successful upload starts the analysis by itself
handleUploadSettledChained(i) ==
    /\ i \in 1..Len(uploads)
    /\ IsSome(uploads[i].response)
    /\ LET resp == Get(uploads[i].response)
           chain == ~UploadFails(resp) /\ requestsSent < MaxRequests IN
          /\ IF UploadFails(resp)
             THEN /\ error' = "Failed to upload file"
                  /\ UNCHANGED videoUrl
             ELSE /\ videoUrl' = Get(resp.file).url
                  /\ UNCHANGED error
          /\ isTranscribing' = (isTranscribing \/ chain)
          /\ analyses' = IF chain
                         THEN Append(analyses,
                                [body |-> TranscribeRequestBody(Get(resp.file).url, requiredSkills),
                                 phase |-> "sent", backendCalls |-> <<>>,
                                 backendResponse |-> None, response |-> None])
                         ELSE analyses
          /\ requestsSent' = IF chain THEN requestsSent + 1 ELSE requestsSent
    /\ isUploading' = FALSE
    /\ uploads' = RemoveAt(uploads, i)
    /\ UNCHANGED <<selectedFile, transcriptionResult, duration,
                   requiredSkills, newSkill, returnedUrls>>
    /\ Rerender

\* Variant: a failed upload is sent again without the user acting
handleUploadSettledRetry(i) ==
    /\ i \in 1..Len(uploads)
    /\ IsSome(uploads[i].response)
    /\ LET resp == Get(uploads[i].response)
           retry == UploadFails(resp) /\ requestsSent < MaxRequests IN
          /\ IF UploadFails(resp)
             THEN /\ error' = "Failed to upload file"
                  /\ UNCHANGED videoUrl
             ELSE /\ videoUrl' = Get(resp.file).url
                  /\ UNCHANGED error
          /\ isUploading' = retry
          /\ uploads' = IF retry THEN [uploads EXCEPT ![i].response = None]
                        ELSE RemoveAt(uploads, i)
          /\ requestsSent' = IF retry THEN requestsSent + 1 ELSE requestsSent
    /\ UNCHANGED <<selectedFile, isTranscribing, transcriptionResult, duration,
                   requiredSkills, newSkill, analyses, returnedUrls>>
    /\ Rerender

\* handleUpload after the await: try / catch / finally
handleUploadSettled(i) ==
    /\ i \in 1..Len(uploads)
    /\ IsSome(uploads[i].response)
    /\ LET resp == Get(uploads[i].response) IN
          IF UploadFails(resp)
          THEN /\ error' = "Failed to upload file"
               /\ UNCHANGED videoUrl
          ELSE /\ videoUrl' = Get(resp.file).url
               /\ UNCHANGED error
    /\ isUploading' = FALSE
    /\ uploads' = RemoveAt(uploads, i)
    /\ UNCHANGED <<selectedFile, isTranscribing, transcriptionResult, duration,
                   requiredSkills, newSkill, analyses, requestsSent, returnedUrls>>
    /\ Rerender


(***************************************************************************)
(* Analysis: the page side                                                 *)
(***************************************************************************)
\* handleTranscribe up to the await: one fetch("/api/transcribe") is issued
handleTranscribe ==
    /\ AnalyzeButtonEnabled
    /\ requestsSent < MaxRequests
    /\ videoUrl # ""
    /\ isTranscribing' = TRUE
    /\ error' = ""
    /\ analyses' = Append(analyses,
                     [body |-> TranscribeRequestBody(videoUrl, requiredSkills),
                      phase |-> "sent", backendCalls |-> <<>>,
                      backendResponse |-> None, response |-> None])
    /\ requestsSent' = requestsSent + 1
    /\ UNCHANGED <<selectedFile, videoUrl, isUploading, transcriptionResult,
                   duration, requiredSkills, newSkill, uploads, returnedUrls>>
    /\ Rerender

\* The fetch to the route fails in transport before the route answers
TranscribeFetchRejected(i) ==
    /\ i \in 1..Len(analyses)
    /\ analyses[i].phase = "sent"
    /\ analyses' = [analyses EXCEPT ![i].phase = "responded",
                                    ![i].response = Some(Rejected)]
    /\ UNCHANGED <<pageVars, uploads, requestsSent, returnedUrls, dashboard, report>>

\* Variant: a failed analysis discarding the result of the previous one
handleTranscribeSettledClearing(i) ==
    /\ i \in 1..Len(analyses)
    /\ analyses[i].phase = "responded"
    /\ LET resp == Get(analyses[i].response) IN
          IF ~ResponseOk(resp)
          THEN /\ error' = "Failed to transcribe video"
               /\ transcriptionResult' = None
               /\ UNCHANGED duration
          ELSE /\ transcriptionResult' = resp.body
               /\ IF getDuration(resp.body).threw
                  THEN /\ error' = "Failed to transcribe video"
                       /\ UNCHANGED duration
                  ELSE /\ duration' = formatTime(getDuration(resp.body).value)
                       /\ UNCHANGED error
    /\ isTranscribing' = FALSE
    /\ analyses' = RemoveAt(analyses, i)
    /\ UNCHANGED <<selectedFile, videoUrl, isUploading, requiredSkills, newSkill,
                   uploads, requestsSent, returnedUrls>>
    /\ Rerender

\* Variant: setIsTranscribing(false) at the end of the try block instead of
\* in finally
handleTranscribeSettledNoFinally(i) ==
    /\ i \in 1..Len(analyses)
    /\ analyses[i].phase = "responded"
    /\ LET resp == Get(analyses[i].response) IN
          IF ~ResponseOk(resp)
          THEN /\ error' = "Failed to transcribe video"
               /\ UNCHANGED <<transcriptionResult, duration, isTranscribing>>
          ELSE /\ transcriptionResult' = resp.body
               /\ IF getDuration(resp.body).threw
                  THEN /\ error' = "Failed to transcribe video"
                       /\ UNCHANGED <<duration, isTranscribing>>
                  ELSE /\ duration' = formatTime(getDuration(resp.body).value)
                       /\ isTranscribing' = FALSE
                       /\ UNCHANGED error
    /\ analyses' = RemoveAt(analyses, i)
    /\ UNCHANGED <<selectedFile, videoUrl, isUploading, requiredSkills, newSkill,
                   uploads, requestsSent, returnedUrls>>
    /\ Rerender

\* setTranscriptionResult(data); setDuration(formatTime(getDuration(data))):
\* the first update is already queued when getDuration throws
handleTranscribeSettled(i) ==
    /\ i \in 1..Len(analyses)
    /\ analyses[i].phase = "responded"
    /\ LET resp == Get(analyses[i].response) IN
          IF ~ResponseOk(resp)
          THEN /\ error' = "Failed to transcribe video"
               /\ UNCHANGED <<transcriptionResult, duration>>
          ELSE /\ transcriptionResult' = resp.body
               /\ IF getDuration(resp.body).threw
                  THEN /\ error' = "Failed to transcribe video"
                       /\ UNCHANGED duration
                  ELSE /\ duration' = formatTime(getDuration(resp.body).value)
                       /\ UNCHANGED error
    /\ isTranscribing' = FALSE
    /\ analyses' = RemoveAt(analyses, i)
    /\ UNCHANGED <<selectedFile, videoUrl, isUploading, requiredSkills, newSkill,
                   uploads, requestsSent, returnedUrls>>
    /\ Rerender

(***************************************************************************)
(* Analysis: the /api/transcribe route (route.ts)                          *)
(***************************************************************************)
\* const { videoUrl } = await request.json();
\* body: JSON.stringify({video_url: videoUrl, include_enhanced_feedback: true})
BackendRequestBody(body) ==
    [video_url |-> body.videoUrl, include_enhanced_feedback |-> TRUE]

\* NextResponse.json({error: message}, {status})
ErrorBody(message) == [error |-> message]

\* Variant: the route forwarding every request to the backend
POSTForwarding(i) ==
    /\ i \in 1..Len(analyses)
    /\ analyses[i].phase = "sent"
    /\ analyses' = [analyses EXCEPT
           ![i].phase = "backend",
           ![i].backendCalls =
               Append(@, [video_url |-> IF "videoUrl" \in DOMAIN analyses[i].body
                                        THEN analyses[i].body.videoUrl ELSE "",
                          include_enhanced_feedback |-> TRUE])]
    /\ UNCHANGED <<pageVars, uploads, requestsSent, returnedUrls, dashboard, report>>

\* POST up to the await of the backend fetch.  !videoUrl holds when the JSON
\* object has no videoUrl key (undefined) and when the value is ""
POST(i) ==
    /\ i \in 1..Len(analyses)
    /\ analyses[i].phase = "sent"
    /\ IF "videoUrl" \notin DOMAIN analyses[i].body \/ analyses[i].body.videoUrl = ""
       THEN analyses' = [analyses EXCEPT
                ![i].phase = "responded",
                ![i].response = Some(RouteResponse(400, Some(ErrorBody("Video URL is required"))))]
       ELSE analyses' = [analyses EXCEPT
                ![i].phase = "backend",
                ![i].backendCalls = Append(@, BackendRequestBody(analyses[i].body))]
    /\ UNCHANGED <<pageVars, uploads, requestsSent, returnedUrls, dashboard, report>>

\* Variant: the route passing a backend failure on as an empty 200 response
POSTSettledSwallowing(i, backend) ==
    /\ i \in 1..Len(analyses)
    /\ analyses[i].phase = "backend"
    /\ analyses' = [analyses EXCEPT
           ![i].phase = "responded",
           ![i].backendResponse = Some(backend),
           ![i].response = IF backend.rejected \/ ~backend.ok
                           THEN Some(RouteResponse(200, None))
                           ELSE Some(RouteResponse(200, backend.body))]
    /\ UNCHANGED <<pageVars, uploads, requestsSent, returnedUrls, dashboard, report>>

\* POST after the await: !response.ok and a rejected fetch both end in the
\* catch block (status 500); otherwise the backend's JSON is passed through
POSTSettled(i, backend) ==
    /\ i \in 1..Len(analyses)
    /\ analyses[i].phase = "backend"
    /\ analyses' = [analyses EXCEPT
           ![i].phase = "responded",
           ![i].backendResponse = Some(backend),
           ![i].response = IF backend.rejected \/ ~backend.ok
                           THEN Some(RouteResponse(500,
                                    Some(ErrorBody("Failed to process transcription"))))
                           ELSE Some(RouteResponse(200, backend.body))]
    /\ UNCHANGED <<pageVars, uploads, requestsSent, returnedUrls, dashboard, report>>

(***************************************************************************)
(* The page workflow                                                       *)
(***************************************************************************)
Next ==
    \/ \E text \in SkillInputs : setNewSkill(text)
    \/ handleAddSkill
    \/ \E index \in 1..MaxSkills : handleRemoveSkill(index)
    \/ \E file \in Files \cup {NoFile} : handleFileSelect(file)
    \/ handleUpload
    \/ \E i \in 1..MaxRequests, resp \in UploadResponses : UploadEndpoint(i, resp)
    \/ \E i \in 1..MaxRequests : handleUploadSettled(i)
    \/ handleTranscribe
    \/ \E i \in 1..MaxRequests : TranscribeFetchRejected(i)
    \/ \E i \in 1..MaxRequests : POST(i)
    \/ \E i \in 1..MaxRequests, backend \in BackendResponses : POSTSettled(i, backend)
    \/ \E i \in 1..MaxRequests : handleTranscribeSettled(i)

Spec == Init /\ [][Next]_vars


(***************************************************************************)
(* The renderers as pure functions: every Result Model of the bounded      *)
(* family, with every required-skills list, is handed to Home and to       *)
(* PDFReport.                                                              *)
(***************************************************************************)
RECURSIVE SeqsUpTo(_, _)
SeqsUpTo(S, n) ==
    IF n = 0 THEN {<<>>}
    ELSE SeqsUpTo(S, n - 1) \cup
         {Append(q, x) : q \in {r \in SeqsUpTo(S, n - 1) : Len(r) = n - 1}, x \in S}

Optional(S) == {None} \cup {Some(x) : x \in S}

TechnicalSkillsModels ==
    {TechnicalSkills(sk, Some(4 * RatingUnit), Some(3 * RatingUnit)) :
        sk \in Optional(SeqsUpTo(Skills, MaxSkillRows))}

FeedbackModels ==
    {Feedback(ts, cs, ca, sp, Some(4 * RatingUnit), Some(5 * RatingUnit)) :
        ts \in Optional(TechnicalSkillsModels),
        cs \in Optional({CommunicationSkills(Some(4 * RatingUnit))}),
        ca \in Optional({[clarity |-> "high"]}),
        sp \in Optional({[pace |-> "medium"]})}

TranscriptionModels == Optional({<<>>, <<Segment(0, 65)>>})

ResultModels ==
    {Result(tr, fb) : tr \in TranscriptionModels, fb \in Optional(FeedbackModels)}

\* Lists handleAddSkill can build: trimmed, non-empty names
RequiredSkillLists ==
    SeqsUpTo({[name |-> trim(t)] : t \in {u \in SkillInputs : trim(u) # <<>>}}, MaxSkills)

\* The page after a successful upload and an analysis that returned res
RenderInit ==
    /\ selectedFile = "a.mp4"
    /\ videoUrl = "https://cdn/a"
    /\ isUploading = FALSE
    /\ isTranscribing = FALSE
    /\ transcriptionResult \in {Some(r) : r \in ResultModels}
    /\ requiredSkills \in RequiredSkillLists
    /\ error = IF getDuration(transcriptionResult).threw
               THEN "Failed to transcribe video" ELSE ""
    /\ duration = IF getDuration(transcriptionResult).threw THEN "00:00"
                  ELSE formatTime(getDuration(transcriptionResult).value)
    /\ newSkill = <<>>
    /\ uploads = <<>>
    /\ analyses = <<>>
    /\ requestsSent = 2
    /\ returnedUrls = {"https://cdn/a"}
    /\ dashboard = None
    /\ report = None

RenderDashboard ==
    /\ dashboard = None
    /\ dashboard' = Some(Home(transcriptionResult, requiredSkills, duration))
    /\ UNCHANGED <<pageVars, uploads, analyses, requestsSent, returnedUrls, report>>

RenderReport ==
    /\ report = None
    /\ report' = Some(PDFReport(transcriptionResult))
    /\ UNCHANGED <<pageVars, uploads, analyses, requestsSent, returnedUrls, dashboard>>

RenderNext == RenderDashboard \/ RenderReport

RenderSpec == RenderInit /\ [][RenderNext]_vars


(***************************************************************************)
(* The renderers on the numeric fields: every combination of scores of the *)
(* bounded family, present or missing, is handed to Home and to PDFReport. *)
(***************************************************************************)
\* 0, 0.125, 2, 2.5, 3, 4 and 5
Ratings == {0, 1, 2 * RatingUnit, 20, 3 * RatingUnit, 4 * RatingUnit, 5 * RatingUnit}

\* 0.125, 2.5 and 5
TechnicalRatings == {1, 20, 5 * RatingUnit}

\* 0, 2.5 and 5
ConfidenceRatings == {0, 20, 5 * RatingUnit}

ScoreSkillLists ==
    { <<Skill("R", TRUE, "Available")>>,
      <<Skill("R", TRUE, "Available"), Skill("S", TRUE, "Not Available")>> }

ScoreTechnicalSkillsModels ==
    {TechnicalSkills(Some(sk), depth, breadth) :
        sk \in ScoreSkillLists,
        depth \in Optional(TechnicalRatings),
        breadth \in Optional(TechnicalRatings)}

ScoreFeedbackModels ==
    {Feedback(ts, cs, Some([clarity |-> "high"]), Some([pace |-> "medium"]), qs, cl) :
        ts \in Optional(ScoreTechnicalSkillsModels),
        cs \in Optional({CommunicationSkills(r) : r \in Optional(Ratings)}),
        qs \in Optional(Ratings),
        cl \in Optional(ConfidenceRatings)}

ScoreModels == {Result(Some(<<Segment(0, 65)>>), Some(fb)) : fb \in ScoreFeedbackModels}

\* The page after a successful upload and an analysis that returned res
ScoreInit ==
    /\ selectedFile = "a.mp4"
    /\ videoUrl = "https://cdn/a"
    /\ isUploading = FALSE
    /\ isTranscribing = FALSE
    /\ transcriptionResult \in {Some(r) : r \in ScoreModels}
    /\ requiredSkills \in RequiredSkillLists
    /\ error = ""
    /\ duration = formatTime(getDuration(transcriptionResult).value)
    /\ newSkill = <<>>
    /\ uploads = <<>>
    /\ analyses = <<>>
    /\ requestsSent = 2
    /\ returnedUrls = {"https://cdn/a"}
    /\ dashboard = None
    /\ report = None

ScoreSpec == ScoreInit /\ [][RenderNext]_vars

\* The page after a successful upload and an analysis that returned one of
\* the given Result Models, with one of the given required-skills lists
PageShowing(results, skillLists) ==
    /\ selectedFile = "a.mp4"
    /\ videoUrl = "https://cdn/a"
    /\ isUploading = FALSE
    /\ isTranscribing = FALSE
    /\ transcriptionResult \in {Some(r) : r \in results}
    /\ requiredSkills \in skillLists
    /\ error = ""
    /\ duration = formatTime(getDuration(transcriptionResult).value)
    /\ newSkill = <<>>
    /\ uploads = <<>>
    /\ analyses = <<>>
    /\ requestsSent = 2
    /\ returnedUrls = {"https://cdn/a"}
    /\ dashboard = None
    /\ report = None

(***************************************************************************)
(* The /api/transcribe route on its own: requests of any HTTP client, with *)
(* a JSON object that has a video URL, an empty one or none.               *)
(***************************************************************************)
RouteBodies ==
    { [requiredSkills |-> <<>>],
      [videoUrl |-> "", requiredSkills |-> <<>>],
      [videoUrl |-> "https://cdn/a", requiredSkills |-> <<>>] }

\* A request that has reached the route
RouteRequest(body) ==
    [body |-> body, phase |-> "sent", backendCalls |-> <<>>,
     backendResponse |-> None, response |-> None]

RouteRequests ==
    SeqsUpTo({RouteRequest(body) : body \in RouteBodies}, MaxRouteRequests) \ {<<>>}

\* The page is idle; the requests have arrived at the route
RouteInit ==
    /\ selectedFile = NoFile
    /\ videoUrl = ""
    /\ isUploading = FALSE
    /\ isTranscribing = FALSE
    /\ transcriptionResult = None
    /\ error = ""
    /\ duration = "00:00"
    /\ requiredSkills = <<>>
    /\ newSkill = <<>>
    /\ uploads = <<>>
    /\ analyses \in RouteRequests
    /\ requestsSent = 0
    /\ returnedUrls = {}
    /\ dashboard = Some(Home(None, <<>>, "00:00"))
    /\ report = Some(PDFReport(None))

RouteNext ==
    \/ \E i \in 1..MaxRouteRequests : POST(i)
    \/ \E i \in 1..MaxRouteRequests, backend \in BackendResponses : POSTSettled(i, backend)

RouteSpec == RouteInit /\ [][RouteNext]_vars

(***************************************************************************)
(* The required-skills editor on its own: the page after an upload, with   *)
(* texts that have leading, trailing and inner spaces and lists of up to   *)
(* MaxEditSkills entries.                                                  *)
(***************************************************************************)
\* "", " ", " A ", "B", "A B" and "  "
EditInputs ==
    {<<>>, <<" ">>, <<" ", "A", " ">>, <<"B">>, <<"A", " ", "B">>, <<" ", " ">>}

\* The page after a successful upload, before any analysis
EditInit ==
    /\ selectedFile = "a.mp4"
    /\ videoUrl = "https://cdn/a"
    /\ isUploading = FALSE
    /\ isTranscribing = FALSE
    /\ transcriptionResult = None
    /\ error = ""
    /\ duration = "00:00"
    /\ requiredSkills = <<>>
    /\ newSkill = <<>>
    /\ uploads = <<>>
    /\ analyses = <<>>
    /\ requestsSent = 1
    /\ returnedUrls = {"https://cdn/a"}
    /\ dashboard = Some(Home(None, <<>>, "00:00"))
    /\ report = Some(PDFReport(None))

EditNext ==
    \/ \E text \in EditInputs : setNewSkill(text)
    \/ handleAddSkillWithin(MaxEditSkills)
    \/ \E index \in 1..MaxEditSkills : handleRemoveSkill(index)

EditSpec == EditInit /\ [][EditNext]_vars

(***************************************************************************)
(* The renderers on the string arrays of the feedback: key_topics,         *)
(* recommendations and actionable_insights, each missing, empty or filled. *)
(***************************************************************************)
Topics == {"t1", "t2"}

StringArrays == Optional(SeqsUpTo(Topics, MaxTopics))

ListModels ==
    {Result(Some(<<Segment(0, 65)>>), Some(WithLists(FullFeedback, kt, rec, ins))) :
        kt \in StringArrays, rec \in StringArrays, ins \in StringArrays}

ListInit == PageShowing(ListModels, {<<>>})

ListSpec == ListInit /\ [][RenderNext]_vars

(***************************************************************************)
(* The renderers on the rating_score of a skill: every score of the 1-5    *)
(* scale in steps of one half.                                             *)
(***************************************************************************)
\* 1, 1.5, 2, ..., 5
RatingScores == {k * (RatingUnit \div 2) : k \in 2..10}

RatedSkillLists ==
    {<<RatedSkill(n, req, avail, score)>> :
        n \in SkillNames, req \in BOOLEAN,
        avail \in {"Available", "Not Available"}, score \in RatingScores}

RatedSkillModels ==
    {Result(Some(<<Segment(0, 65)>>),
            Some(Feedback(Some(TechnicalSkills(Some(sk), Some(4 * RatingUnit),
                                               Some(3 * RatingUnit))),
                          Some(CommunicationSkills(Some(4 * RatingUnit))),
                          Some([clarity |-> "high"]), Some([pace |-> "medium"]),
                          Some(4 * RatingUnit), Some(5 * RatingUnit)))) :
        sk \in RatedSkillLists}

RatedSkillInit == PageShowing(RatedSkillModels, {<<>>})

RatedSkillSpec == RatedSkillInit /\ [][RenderNext]_vars


(***************************************************************************)
(* Properties of the page workflow (Spec)                                  *)
(***************************************************************************)
\* The step in which the page consumes the settled upload i / analysis i
UploadSettles(i) ==
    /\ i \in 1..Len(uploads)
    /\ IsSome(uploads[i].response)
    /\ uploads' = RemoveAt(uploads, i)

AnalysisSettles(i) ==
    /\ i \in 1..Len(analyses)
    /\ analyses[i].phase = "responded"
    /\ analyses' = RemoveAt(analyses, i)

\* C1: whenever an upload attempt ends with a non-2xx response or a transport
\* error, right after it videoUrl is empty, the error banner shows 'Failed to
\* upload file' and the analysis section is not reachable.
C1_UploadFailureLeavesNoUrl ==
    [][\A i \in 1..Len(uploads) :
          (UploadSettles(i) /\ (Get(uploads[i].response).rejected
                                \/ ~Get(uploads[i].response).ok))
          => /\ videoUrl' = ""
             /\ ErrorBannerShown'
             /\ error' = "Failed to upload file"
             /\ ~AnalysisSectionVisible']_vars

\* C2: every analysis ends in exactly one of two outcomes: the response body
\* becomes transcriptionResult and no analysis error is raised, or
\* transcriptionResult and duration are unchanged and the banner shows
\* 'Failed to transcribe video'.
C2_AnalysisAllOrNothing ==
    [][\A i \in 1..Len(analyses) :
          AnalysisSettles(i)
          => LET resp == Get(analyses[i].response) IN
             \/ /\ ResponseOk(resp)
                /\ transcriptionResult' = resp.body
                /\ error' # "Failed to transcribe video"
             \/ /\ transcriptionResult' = transcriptionResult
                /\ duration' = duration
                /\ error' = "Failed to transcribe video"]_vars

\* A backend request carries the list when one of its fields, other than the
\* URL and the feedback flag, holds it
CarriesSkills(call, names) ==
    \E f \in DOMAIN call \ {"video_url", "include_enhanced_feedback"} : call[f] = names

\* C3: the request that reaches the external analysis endpoint carries the
\* video URL and the required-skills list the user had entered when the
\* analysis was triggered.
C3_BackendReceivesRequiredSkills ==
    \A i \in 1..Len(analyses) :
        \A k \in 1..Len(analyses[i].backendCalls) :
            /\ analyses[i].backendCalls[k].video_url = analyses[i].body.videoUrl
            /\ analyses[i].body.requiredSkills # <<>>
               => CarriesSkills(analyses[i].backendCalls[k], analyses[i].body.requiredSkills)

\* C4: at most one upload request and at most one analysis request are
\* outstanding, and while a request is outstanding its triggering control is
\* disabled.
C4_SingleOutstandingPerAction ==
    /\ Len(uploads) <= 1
    /\ Len(analyses) <= 1
    /\ uploads # <<>> => (isUploading /\ ~UploadButtonEnabled)
    /\ analyses # <<>> => (isTranscribing /\ ~AnalyzeButtonEnabled)

C4_Witness ==
    /\ Len(uploads) = 1
    /\ Len(analyses) = 1
    /\ selectedFile # NoFile
    /\ videoUrl # ""
    /\ ~UploadButtonEnabled
    /\ ~AnalyzeButtonEnabled

\* C5: an upload request and an analysis request are never outstanding at the
\* same time: isUploading and isTranscribing are never both true.
C5_UploadAndAnalysisSequential ==
    /\ ~(isUploading /\ isTranscribing)
    /\ ~(uploads # <<>> /\ analyses # <<>>)

\* C6: an analysis request appears only in the step of the user's click on the
\* analysis button (isTranscribing goes from false to true, no upload is
\* settled in that step), it carries the current non-empty videoUrl, and the
\* URL of every analysis request in flight was returned by the upload endpoint.
C6_AnalysisOnlyAfterUploadByUser ==
    [][/\ Len(analyses') > Len(analyses)
          => /\ videoUrl # ""
             /\ ~isTranscribing /\ isTranscribing'
             /\ uploads' = uploads
             /\ Len(analyses') = Len(analyses) + 1
             /\ analyses'[Len(analyses')].body.videoUrl = videoUrl
       /\ \A i \in 1..Len(analyses') :
             /\ analyses'[i].body.videoUrl # ""
             /\ analyses'[i].body.videoUrl \in returnedUrls']_vars

C6_Witness ==
    /\ Len(analyses) = 1
    /\ analyses[1].body.videoUrl \in returnedUrls
    /\ Cardinality(returnedUrls) = 2
    /\ analyses[1].body.videoUrl # videoUrl

\* C7: once the user selects another file or triggers an upload, no Result
\* Model is held and no results section is shown.
C7_NewCycleDiscardsResult ==
    [][(selectedFile' # selectedFile \/ (~isUploading /\ isUploading'))
       => (transcriptionResult' = None /\ ~ResultsSectionShown')]_vars

\* C8: a request is issued only in the step of a user action (the busy flag of
\* that action goes from false to true) and exactly one request is issued in
\* it; settling a request, failed or not, issues none; the route calls the
\* backend at most once per incoming request.
C8_NoAutomaticRetry ==
    [][/\ (requestsSent' # requestsSent
           \/ Len(uploads') > Len(uploads) \/ Len(analyses') > Len(analyses))
          => /\ requestsSent' = requestsSent + 1
             /\ \/ /\ ~isUploading /\ isUploading'
                   /\ Len(uploads') = Len(uploads) + 1
                   /\ analyses' = analyses
                \/ /\ ~isTranscribing /\ isTranscribing'
                   /\ Len(analyses') = Len(analyses) + 1
                   /\ uploads' = uploads
       /\ Len(uploads') = Len(uploads)
          => \A i \in 1..Len(uploads) :
                IsSome(uploads[i].response) => uploads'[i] = uploads[i]
       /\ Len(analyses') = Len(analyses)
          => \A i \in 1..Len(analyses) :
                analyses[i].phase = "responded" => analyses'[i] = analyses[i]
       /\ \A i \in 1..Len(analyses') : Len(analyses'[i].backendCalls) <= 1]_vars

C8_Witness ==
    /\ error = "Failed to transcribe video"
    /\ uploads = <<>>
    /\ analyses = <<>>
    /\ ~isUploading /\ ~isTranscribing
    /\ requestsSent = 2

\* C18: transcriptionResult changes only in the step that settles an analysis
\* with a success response, and then becomes that response's body; an
\* analysis that fails, any settled upload and any edit of the required-skills
\* list leave it unchanged; and what Home and PDFReport render is rendered
\* from exactly that value.
C18_ResultNeverMutated ==
    [][/\ transcriptionResult' # transcriptionResult
          => \E i \in 1..Len(analyses) :
                /\ AnalysisSettles(i)
                /\ ResponseOk(Get(analyses[i].response))
       /\ \A i \in 1..Len(analyses) :
             AnalysisSettles(i)
             => IF ResponseOk(Get(analyses[i].response))
                THEN transcriptionResult' = Get(analyses[i].response).body
                ELSE transcriptionResult' = transcriptionResult
       /\ \A i \in 1..Len(uploads) :
             UploadSettles(i) => transcriptionResult' = transcriptionResult
       /\ requiredSkills' # requiredSkills => transcriptionResult' = transcriptionResult
       /\ dashboard' = Some(Home(transcriptionResult', requiredSkills', duration'))
       /\ report' = Some(PDFReport(transcriptionResult'))]_vars

\* A result is held, a required skill has been entered and the last analysis
\* failed: the result shown is still the complete one of the earlier analysis
C18_Witness ==
    /\ IsSome(transcriptionResult)
    /\ ~getDuration(transcriptionResult).threw
    /\ error = "Failed to transcribe video"
    /\ Len(requiredSkills) = 1
    /\ analyses = <<>>
    /\ dashboard = Some(Home(transcriptionResult, requiredSkills, duration))
    /\ report = Some(PDFReport(transcriptionResult))

\* C19: isUploading (isTranscribing) is true exactly while an upload (analysis)
\* request is outstanding: it is set in the step that sends the request, and
\* the step in which the page handles the response, success or failure, sets
\* it to false and leaves the button enabled.
C19_BusyWhileOutstanding ==
    /\ [](/\ isUploading <=> uploads # <<>>
          /\ isTranscribing <=> analyses # <<>>)
    /\ [][/\ Len(uploads') > Len(uploads) => isUploading'
          /\ Len(analyses') > Len(analyses) => isTranscribing'
          /\ \A i \in 1..Len(uploads) :
                UploadSettles(i) => (~isUploading' /\ UploadButtonEnabled')
          /\ \A i \in 1..Len(analyses) :
                AnalysisSettles(i) => (~isTranscribing' /\ AnalyzeButtonEnabled')]_vars

\* After a failed analysis and then a failed upload both buttons are enabled
\* again
C19_Witness ==
    /\ error = "Failed to upload file"
    /\ requestsSent = MaxRequests
    /\ uploads = <<>> /\ analyses = <<>>
    /\ ~isUploading /\ ~isTranscribing
    /\ UploadButtonEnabled /\ AnalyzeButtonEnabled
    /\ ~IsSome(transcriptionResult)

\* The backend call of the route failed: the fetch rejected or !response.ok
BackendFailed(call) ==
    /\ IsSome(call.backendResponse)
    /\ (Get(call.backendResponse).rejected \/ ~Get(call.backendResponse).ok)

\* C20: when the backend call fails or answers non-success, the route answers
\* 500 with an error body, never a 2xx, and the page, handling that answer,
\* shows 'Failed to transcribe video' and leaves transcriptionResult as it was.
C20_BackendFailureIsFailure ==
    [][/\ Len(analyses') = Len(analyses)
          => \A i \in 1..Len(analyses) :
                (analyses[i].phase = "backend" /\ analyses'[i].phase = "responded"
                 /\ BackendFailed(analyses'[i]))
                => LET resp == Get(analyses'[i].response) IN
                   /\ ~resp.rejected
                   /\ resp.status = 500
                   /\ ~ResponseOk(resp)
                   /\ IsSome(resp.body)
                   /\ DOMAIN Get(resp.body) = {"error"}
       /\ \A i \in 1..Len(analyses) :
             (AnalysisSettles(i) /\ BackendFailed(analyses[i]))
             => /\ error' = "Failed to transcribe video"
                /\ ErrorBannerShown'
                /\ transcriptionResult' = transcriptionResult]_vars

\* The route has answered 500 to an analysis whose backend call answered
\* non-success, while the page holds the result of an earlier analysis
C20_Witness ==
    /\ Len(analyses) = 1
    /\ analyses[1].phase = "responded"
    /\ BackendFailed(analyses[1])
    /\ ~Get(analyses[1].backendResponse).rejected
    /\ Get(analyses[1].response).status = 500
    /\ IsSome(transcriptionResult)

(***************************************************************************)
(* Properties of the renderers (RenderSpec)                                *)
(***************************************************************************)
\* C9: for every Result Model with any subset of its nested objects and
\* arrays absent or empty, and every required-skills list, the Dashboard and
\* the Report render without throwing.
C9_RenderersNeverThrow ==
    /\ IsSome(dashboard) => ~Get(dashboard).threw
    /\ IsSome(report) => ~Get(report).threw

TechnicalSkillsSections ==
    {"technicalSkills", "skillsTable", "coverageScore",
     "requiredSkillsEvaluation", "detectedSkills"}

\* The Result Model has its transcript and its feedback, and the feedback
\* has no technical_skills
LacksTechnicalSkills(result) ==
    /\ IsSome(result)
    /\ IsSome(Get(result).transcription)
    /\ IsSome(Get(result).feedback)
    /\ ~IsSome(Get(Get(result).feedback).technical_skills)

\* C10: given a Result Model (transcript and feedback present) whose feedback
\* has no technical_skills, the Dashboard and the Report do not throw and
\* render no technical-skills section and no skills table, whatever the
\* required-skills list is.
C10_AbsentTechnicalSkillsOmitted ==
    LacksTechnicalSkills(transcriptionResult)
    => /\ IsSome(dashboard)
          => /\ ~Get(dashboard).threw
             /\ Get(dashboard).sections \cap TechnicalSkillsSections = {}
       /\ IsSome(report)
          => /\ ~Get(report).threw
             /\ Get(report).sections \cap TechnicalSkillsSections = {}

C10_Witness ==
    /\ LacksTechnicalSkills(transcriptionResult)
    /\ Len(requiredSkills) = MaxSkills
    /\ IsSome(dashboard) /\ ~Get(dashboard).threw
    /\ "tabularAssessment" \in Get(dashboard).sections
    /\ IsSome(report) /\ ~Get(report).threw
    /\ "assessmentSummary" \in Get(report).sections

(***************************************************************************)
(* Properties of the computed values (ScoreSpec, RenderSpec)               *)
(***************************************************************************)
\* Both renderers have rendered the current Result Model without throwing
BothRendered ==
    /\ IsSome(dashboard) /\ ~Get(dashboard).threw
    /\ IsSome(report) /\ ~Get(report).threw

SharedFields == {"technical", "communication", "contentQuality", "overall", "coverage"}

LabelledFields == {"communication", "contentQuality"}

\* C11: the same Result Model fed to the Dashboard and to the Report yields
\* the same quality percentage, the same percentage in every row the two
\* assessment tables share (technical proficiency, communication rating,
\* content quality, confidence level, required-skill coverage) and the same
\* bucket label in the rows that carry one.
C11_RenderersAgree ==
    BothRendered
    => LET d == Get(dashboard)
           r == Get(report) IN
       /\ d.quality = r.quality
       /\ \A f \in SharedFields :
             (IsSome(d.assessment[f]) /\ IsSome(r.assessment[f]))
             => Get(d.assessment[f]).score = Get(r.assessment[f]).score
       /\ \A f \in LabelledFields :
             (IsSome(d.assessment[f]) /\ IsSome(r.assessment[f]))
             => Get(d.assessment[f]).rating = Get(r.assessment[f]).rating

\* The skills array of the current Result Model (empty when it is missing)
CurrentSkills ==
    IF /\ IsSome(transcriptionResult)
       /\ IsSome(Get(transcriptionResult).feedback)
       /\ HasSkillsArray(Get(Get(transcriptionResult).feedback))
    THEN Get(Get(Get(Get(transcriptionResult).feedback).technical_skills).skills)
    ELSE <<>>

\* Positions of the skills flagged is_required, and of those among them that
\* are not "Not Available"
RequiredPositions(skills) == {k \in 1..Len(skills) : skills[k].is_required}

CoveredPositions(skills) ==
    {k \in RequiredPositions(skills) : skills[k].availability_status # "Not Available"}

\* text shows the integer nearest to num / den (a half goes up) as a percentage
IsRounded(text, num, den) ==
    \E pct \in 0..100 :
        /\ text = Pct(pct)
        /\ (2 * pct - 1) * den <= 2 * num
        /\ 2 * num < (2 * pct + 1) * den

\* text is the fraction num / den as a percentage rounded to the nearest integer
IsRoundedPct(text, num, den) == IsRounded(text, 100 * num, den)

\* The coverage shown in a row is covered / max(1, required skills)
ShowsCoverage(row, skills) ==
    LET covered == Cardinality(CoveredPositions(skills))
        required == Cardinality(RequiredPositions(skills)) IN
    IsRoundedPct(row.score, covered, Max(1, required))

\* C12: wherever a renderer shows the required-skill coverage, it is the
\* number of skills that are is_required and not "Not Available" divided by
\* max(1, number of required skills), as a rounded percentage: a required
\* skill that is "Not Available" counts in the denominator only.
C12_CoverageFormula ==
    /\ (IsSome(dashboard) /\ ~Get(dashboard).threw
        /\ "coverageScore" \in Get(dashboard).sections)
       => ShowsCoverage(Get(Get(dashboard).assessment.coverage), CurrentSkills)
    /\ (IsSome(report) /\ ~Get(report).threw
        /\ "coverageScore" \in Get(report).sections)
       => ShowsCoverage(Get(Get(report).assessment.coverage), CurrentSkills)

\* The scores of the current Result Model
CurrentFeedback == Get(Get(transcriptionResult).feedback)

\* The places where a renderer that has rendered shows the quality percentage
QualityDisplays ==
    (IF IsSome(dashboard) /\ ~Get(dashboard).threw
     THEN {Get(dashboard).quality, Get(Get(dashboard).assessment.contentQuality).score}
     ELSE {})
    \cup (IF IsSome(report) /\ ~Get(report).threw
          THEN {Get(report).quality, Get(Get(report).assessment.contentQuality).score}
          ELSE {})

\* C13: for a quality_score in 0..5 every place that shows the quality
\* percentage (overview card and Content Quality row of the Dashboard,
\* Executive Summary and Content Quality row of the Report) shows
\* round(quality_score * 20): 4 gives 80%, 0 gives 0% and 5 gives 100%.
C13_QualityTimesTwenty ==
    IsSome(CurrentFeedback.quality_score)
    => LET q == Get(CurrentFeedback.quality_score) IN
       \A text \in QualityDisplays :
           /\ IsRounded(text, 20 * q, RatingUnit)
           /\ q = 4 * RatingUnit => text = "80%"
           /\ q = 0 => text = "0%"
           /\ q = 5 * RatingUnit => text = "100%"

\* Both renderers have shown a quality score of 0.125, which rounds up to 3%
C13_Witness ==
    /\ BothRendered
    /\ CurrentFeedback.quality_score = Some(1)
    /\ QualityDisplays = {"3%"}

\* The rows a renderer that has rendered shows for a field of the assessment
RenderedRows(field) ==
    (IF IsSome(dashboard) /\ ~Get(dashboard).threw
     THEN {Get(Get(dashboard).assessment[field])} ELSE {})
    \cup (IF IsSome(report) /\ ~Get(report).threw /\ IsSome(Get(report).assessment[field])
          THEN {Get(Get(report).assessment[field])} ELSE {})

\* score shows the rating (None when absent) on the 0-5 scale as a percentage
ShowsRatingPct(score, rating) ==
    /\ IsSome(rating) => IsRoundedPct(score, Get(rating), 5 * RatingUnit)
    /\ rating = Some(5 * RatingUnit) => score = "100%"
    /\ rating = Some(0) => score = "0%"
    /\ rating = Some(20) => score = "50%"
    /\ rating = None => score = "0%"

\* C14: the communication rating (when communication_skills is present) and
\* the confidence level are shown as round(r / 5 * 100) percent in both
\* renderers: 5 gives 100, 0 gives 0, 2.5 gives 50, and an absent rating is
\* shown as 0%.
C14_RatingPercentage ==
    /\ IsSome(CurrentFeedback.communication_skills)
       => \A row \in RenderedRows("communication") :
             ShowsRatingPct(row.score, Get(CurrentFeedback.communication_skills).rating)
    /\ \A row \in RenderedRows("overall") :
          ShowsRatingPct(row.score, CurrentFeedback.confidence_level)

\* Both renderers have shown an absent communication rating as 0% and a
\* confidence level of 2.5 as 50%
C14_Witness ==
    /\ BothRendered
    /\ CurrentFeedback.communication_skills = Some(CommunicationSkills(None))
    /\ CurrentFeedback.confidence_level = Some(20)
    /\ {row.score : row \in RenderedRows("communication")} = {"0%"}
    /\ {row.score : row \in RenderedRows("overall")} = {"50%"}

\* The sum of the two technical scores, an absent one taken as 0
TechnicalSum(ts) ==
    (IF IsSome(ts.depth_in_core_topics) THEN Get(ts.depth_in_core_topics) ELSE 0)
    + (IF IsSome(ts.breadth_of_tech_stack) THEN Get(ts.breadth_of_tech_stack) ELSE 0)

\* The bar of the row is as wide as the rational num / den percent
BarIs(row, num, den) ==
    /\ IsSome(row.width)
    /\ Get(row.width)[1] * den = num * Get(row.width)[2]

\* C15: when technical_skills is present, the Technical Skills row of both
\* renderers shows round(((depth + breadth) / 2) * 20) percent, an absent
\* operand counting as 0, and its bar is as wide as that value before
\* rounding.
C15_TechnicalProficiency ==
    IsSome(CurrentFeedback.technical_skills)
    => LET sum == TechnicalSum(Get(CurrentFeedback.technical_skills)) IN
       \A row \in RenderedRows("technical") :
           /\ IsRounded(row.score, sum * 20, 2 * RatingUnit)
           /\ BarIs(row, sum * 20, 2 * RatingUnit)

\* Both renderers have shown depth absent and breadth 0.125 as 1% (1.25
\* before rounding)
C15_Witness ==
    /\ BothRendered
    /\ IsSome(CurrentFeedback.technical_skills)
    /\ Get(CurrentFeedback.technical_skills).depth_in_core_topics = None
    /\ Get(CurrentFeedback.technical_skills).breadth_of_tech_stack = Some(1)
    /\ \A row \in RenderedRows("technical") :
          row.score = "1%" /\ BarIs(row, 5, 4)
    /\ IsSome(Get(report).assessment.technical)

(***************************************************************************)
(* Properties of the skill lists (RenderSpec)                              *)
(***************************************************************************)
\* The table has one row per skill, in the order of the Result Model, and a
\* "Not Available" skill shows the placeholders
OneRowPerSkill(table, skills) ==
    /\ Len(table) = Len(skills)
    /\ \A k \in 1..Len(skills) :
          /\ table[k].skill = skills[k].skill_name
          /\ IF skills[k].availability_status = "Not Available"
             THEN table[k].level = "Not Mentioned" /\ table[k].rating = "-"
             ELSE table[k].level = skills[k].level
                  /\ table[k].rating = skills[k].rating_text

\* C16: in both renderers the skills table has exactly one row per skill of
\* the Result Model, in the original order, "Not Available" skills included,
\* and the row of a "Not Available" skill shows "Not Mentioned" for the level
\* and "-" for the rating.
C16_NotAvailableSkillsKept ==
    /\ (IsSome(dashboard) /\ ~Get(dashboard).threw)
       => OneRowPerSkill(Get(dashboard).skillsTable, CurrentSkills)
    /\ (IsSome(report) /\ ~Get(report).threw)
       => OneRowPerSkill(Get(report).skillsTable, CurrentSkills)

\* Both tables show a "Not Available" skill followed by an available one
C16_Witness ==
    /\ BothRendered
    /\ Len(CurrentSkills) = 2
    /\ CurrentSkills[1].availability_status = "Not Available"
    /\ CurrentSkills[2].availability_status = "Available"
    /\ Len(Get(dashboard).skillsTable) = 2
    /\ Len(Get(report).skillsTable) = 2
    /\ Get(dashboard).skillsTable[1].level = "Not Mentioned"
    /\ Get(report).skillsTable[1].rating = "-"

\* The positions of a set, in increasing order
InOrder(positions) ==
    CHOOSE f \in [1..Cardinality(positions) -> positions] :
        \A j, k \in 1..Cardinality(positions) : j < k => f[j] < f[k]

\* The names of the skills at the given positions, in the order of the list
NamesAt(skills, positions) ==
    [k \in 1..Cardinality(positions) |-> skills[InOrder(positions)[k]].skill_name]

\* The names shown in a group of the technical-skills detail (none when the
\* group is not rendered)
GroupNames(groups, g) ==
    IF \E k \in 1..Len(groups) : groups[k].group = g
    THEN LET k == CHOOSE j \in 1..Len(groups) : groups[j].group = g IN
         [j \in 1..Len(groups[k].rows) |-> groups[k].rows[j].skill]
    ELSE <<>>

\* The groups show the skills flagged is_required first and the remaining
\* skills second, each group in the order of the Result Model
PartitionsSkills(groups, skills) ==
    LET required == RequiredPositions(skills)
        other == (1..Len(skills)) \ required IN
    /\ Len(groups) <= 2
    /\ \A k \in 1..Len(groups) : groups[k].group = "required" => k = 1
    /\ \A k \in 1..Len(groups) : groups[k].group = "other" => k = Len(groups)
    /\ GroupNames(groups, "required") = NamesAt(skills, required)
    /\ GroupNames(groups, "other") = NamesAt(skills, other)
    /\ Len(GroupNames(groups, "required")) + Len(GroupNames(groups, "other")) = Len(skills)

\* C17: in the technical-skills detail of both renderers every skill of the
\* Result Model appears in exactly one of two groups, the skills flagged
\* is_required in the group rendered first and the others in the second, and
\* each group keeps the relative order of the Result Model.
C17_RequiredFirstPartition ==
    /\ (IsSome(dashboard) /\ ~Get(dashboard).threw)
       => PartitionsSkills(Get(dashboard).skillGroups, CurrentSkills)
    /\ (IsSome(report) /\ ~Get(report).threw)
       => PartitionsSkills(Get(report).skillGroups, CurrentSkills)

\* Both renderers show the required skill R first although the Result Model
\* lists the detected skill S before it
C17_Witness ==
    /\ BothRendered
    /\ Len(CurrentSkills) = 2
    /\ ~CurrentSkills[1].is_required /\ CurrentSkills[1].skill_name = "S"
    /\ CurrentSkills[2].is_required /\ CurrentSkills[2].skill_name = "R"
    /\ GroupNames(Get(dashboard).skillGroups, "required") = <<"R">>
    /\ GroupNames(Get(dashboard).skillGroups, "other") = <<"S">>
    /\ Get(dashboard).skillGroups[1].group = "required"
    /\ Get(report).skillGroups[1].group = "required"
    /\ Len(Get(report).skillGroups) = 2

(***************************************************************************)
(* Properties of the string arrays (ListSpec)                              *)
(***************************************************************************)
\* A missing array and an empty array
IsEmptyArray(list) == ~IsSome(list) \/ Get(list) = <<>>

\* The block is rendered and shows one item per entry of the array, in the
\* order of the array, or the given message when there is no entry
ShowsItemsOrMessage(block, list, message) ==
    /\ IsSome(block)
    /\ IF IsEmptyArray(list)
       THEN Get(block).items = <<>> /\ Get(block).message = message
       ELSE /\ Len(Get(block).items) = Len(Get(list))
            /\ \A k \in 1..Len(Get(list)) : Get(block).items[k] = Get(list)[k]
            /\ Get(block).message = ""

\* C21: when key_topics is missing or empty both renderers show the text
\* "No key topics identified" in place of the tags; otherwise both show one
\* tag per topic, in the order of the array.
C21_KeyTopicsFallback ==
    /\ (IsSome(dashboard) /\ ~Get(dashboard).threw)
       => ShowsItemsOrMessage(Get(dashboard).lists.keyTopics,
                              CurrentFeedback.key_topics, "No key topics identified")
    /\ (IsSome(report) /\ ~Get(report).threw)
       => ShowsItemsOrMessage(Get(report).lists.keyTopics,
                              CurrentFeedback.key_topics, "No key topics identified")

\* Both renderers show the fallback text for an empty key_topics array
C21_Witness ==
    /\ BothRendered
    /\ CurrentFeedback.key_topics = Some(<<>>)
    /\ Get(Get(dashboard).lists.keyTopics).message = "No key topics identified"
    /\ Get(Get(report).lists.keyTopics).message = "No key topics identified"

\* The block is rendered and shows a message in place of the items
ShowsEmptyState(block) ==
    IsSome(block) /\ Get(block).items = <<>> /\ Get(block).message # ""

\* What a renderer that has rendered shows for the lists
RenderedLists ==
    (IF IsSome(dashboard) /\ ~Get(dashboard).threw THEN {Get(dashboard).lists} ELSE {})
    \cup (IF IsSome(report) /\ ~Get(report).threw THEN {Get(report).lists} ELSE {})

\* C26: in both renderers a missing or empty recommendations array and a
\* missing or empty actionable_insights array are rendered as an empty-state
\* message; the section does not disappear.
C26_EmptyListsExplained ==
    \A lists \in RenderedLists :
        /\ IsEmptyArray(CurrentFeedback.recommendations)
           => ShowsEmptyState(lists.recommendations)
        /\ IsEmptyArray(CurrentFeedback.actionable_insights)
           => ShowsEmptyState(lists.insights)

(***************************************************************************)
(* Properties of the coverage percentage (RenderSpec)                      *)
(***************************************************************************)
\* The Required Skills Coverage rows that show a percentage (the Dashboard
\* shows "N/A" in its place when the skills array is missing)
RenderedCoverageRows ==
    (IF IsSome(dashboard) /\ ~Get(dashboard).threw
        /\ IsSome(Get(dashboard).assessment.coverage)
        /\ Get(Get(dashboard).assessment.coverage).score # "N/A"
     THEN {Get(Get(dashboard).assessment.coverage)} ELSE {})
    \cup (IF IsSome(report) /\ ~Get(report).threw
             /\ IsSome(Get(report).assessment.coverage)
          THEN {Get(Get(report).assessment.coverage)} ELSE {})

\* C27: the coverage percentage shown is between 0% and 100% in both
\* renderers, for every Result Model and every required-skills list.
C27_CoverageWithinRange ==
    \A row \in RenderedCoverageRows : row.score \in {Pct(n) : n \in 0..100}

(***************************************************************************)
(* Properties of the page while a result is displayed (Spec)               *)
(***************************************************************************)
\* The Required Skills Coverage row the Dashboard shows
ShownCoverage == Get(dashboard).assessment.coverage

\* C22: while a result stays displayed, adding or removing required skills
\* changes neither the percentage nor the "n / m" of the Dashboard's Required
\* Skills Coverage row: they stay those of the list sent with the analysis
\* request.
C22_CoverageFixedByRequest ==
    [][(/\ IsSome(transcriptionResult)
        /\ transcriptionResult' = transcriptionResult
        /\ IsSome(dashboard) /\ ~Get(dashboard).threw
        /\ IsSome(ShownCoverage))
       => /\ IsSome(ShownCoverage')
          /\ Get(ShownCoverage').score = Get(ShownCoverage).score
          /\ Get(ShownCoverage').rating = Get(ShownCoverage).rating]_vars

(***************************************************************************)
(* Properties of the rating dots (RatedSkillSpec)                          *)
(***************************************************************************)
\* C23: for every skill and every rating_score of the 1-5 scale, halves
\* included, the Score cell of the skills table fills the same number of
\* dots in the Dashboard and in the Report.
C23_SameDots ==
    BothRendered
    => /\ Len(Get(dashboard).skillsTable) = Len(Get(report).skillsTable)
       /\ \A k \in 1..Len(Get(dashboard).skillsTable) :
             Get(dashboard).skillsTable[k].dots = Get(report).skillsTable[k].dots

(***************************************************************************)
(* Properties of the rating labels (ScoreSpec)                             *)
(***************************************************************************)
\* The label of a score on the 0-5 scale: one label for every score
BucketLabel(score) ==
    IF score >= 4 * RatingUnit THEN "Excellent"
    ELSE IF score >= 3 * RatingUnit THEN "Good"
    ELSE IF score >= 2 * RatingUnit THEN "Fair"
    ELSE "Poor"

\* C24: for every communication rating between 0 and 5 both renderers label
\* the Communication row "Excellent" from 4, "Good" from 3, "Fair" from 2 and
\* "Poor" below 2.
C24_CommunicationLabel ==
    (/\ IsSome(CurrentFeedback.communication_skills)
     /\ IsSome(Get(CurrentFeedback.communication_skills).rating))
    => \A row \in RenderedRows("communication") :
          row.rating = BucketLabel(Get(Get(CurrentFeedback.communication_skills).rating))

\* C25: in both renderers the label of the Content Quality row is a total
\* function of quality_score: "Excellent" from 4, "Good" from 3 up to 4,
\* "Fair" from 2 up to 3, and "Poor" below 2 or when the score is absent.
C25_ContentQualityLabel ==
    \A row \in RenderedRows("contentQuality") :
        row.rating = IF IsSome(CurrentFeedback.quality_score)
                     THEN BucketLabel(Get(CurrentFeedback.quality_score))
                     ELSE "Poor"

\* Both renderers label an absent quality_score "Poor"
C25_Witness ==
    /\ BothRendered
    /\ CurrentFeedback.quality_score = None
    /\ Get(Get(dashboard).assessment.contentQuality).rating = "Poor"
    /\ Get(Get(report).assessment.contentQuality).rating = "Poor"

(***************************************************************************)
(* Properties of the duration (Spec)                                       *)
(***************************************************************************)
\* The Dashboard shows a result
ResultDisplayed ==
    /\ IsSome(transcriptionResult)
    /\ IsSome(dashboard) /\ ~Get(dashboard).threw

\* C28: whenever a result is displayed, the Duration of the Dashboard is
\* formatTime of the sum of end_time - start_time over the segments of that
\* result, and the Report prints the same duration.
C28_DurationOfDisplayedResult ==
    ResultDisplayed
    => /\ IsSome(Get(transcriptionResult).transcription)
       /\ Get(dashboard).duration =
             formatTime(SumSegments(Get(Get(transcriptionResult).transcription)))
       /\ IsSome(report) /\ ~Get(report).threw
       /\ Get(report).duration = Get(dashboard).duration

(***************************************************************************)
(* Properties of the required-skills editor (EditSpec)                     *)
(***************************************************************************)
\* Only spaces (or nothing at all)
IsBlank(text) == \A k \in 1..Len(text) : text[k] = " "

\* name is text without its leading and trailing spaces
IsTrimmed(name, text) ==
    /\ name # <<>> /\ name[1] # " " /\ name[Len(name)] # " "
    /\ \E lead \in 0..Len(text) :
          /\ lead + Len(name) <= Len(text)
          /\ SubSeq(text, lead + 1, lead + Len(name)) = name
          /\ IsBlank(SubSeq(text, 1, lead))
          /\ IsBlank(SubSeq(text, lead + Len(name) + 1, Len(text)))

\* after is before without its entry at index, the others in their order
IsRemoval(before, after, index) ==
    /\ Len(after) = Len(before) - 1
    /\ \A k \in 1..Len(after) : after[k] = IF k < index THEN before[k] ELSE before[k + 1]

\* C29: every entry of requiredSkills has a non-empty name without leading or
\* trailing whitespace; handleAddSkill with a blank input changes nothing and
\* otherwise appends the trimmed name at the end and clears the input;
\* handleRemoveSkill(i) removes exactly the entry at index i and keeps the
\* order of the others.
C29_SkillListWellFormed ==
    /\ [](\A k \in 1..Len(requiredSkills) :
            LET name == requiredSkills[k].name IN
            name # <<>> /\ name[1] # " " /\ name[Len(name)] # " ")
    /\ [][/\ handleAddSkillWithin(MaxEditSkills)
             => IF IsBlank(newSkill)
                THEN requiredSkills' = requiredSkills /\ newSkill' = newSkill
                ELSE /\ Len(requiredSkills') = Len(requiredSkills) + 1
                     /\ SubSeq(requiredSkills', 1, Len(requiredSkills)) = requiredSkills
                     /\ IsTrimmed(requiredSkills'[Len(requiredSkills')].name, newSkill)
                     /\ newSkill' = <<>>
          /\ \A index \in 1..MaxEditSkills :
                handleRemoveSkill(index)
                => /\ IsRemoval(requiredSkills, requiredSkills', index)
                   /\ newSkill' = newSkill]_vars

\* Three entries were added from texts with surrounding spaces: the list
\* holds a duplicate name and a name with an inner space, all trimmed
C29_Witness ==
    /\ Len(requiredSkills) = 3
    /\ requiredSkills[1].name = <<"A">>
    /\ requiredSkills[2].name = <<"A", " ", "B">>
    /\ requiredSkills[3].name = <<"A">>
    /\ newSkill = <<>>

(***************************************************************************)
(* Properties of the /api/transcribe route (RouteSpec)                     *)
(***************************************************************************)
\* The request body has no video URL: the key is missing or its value is ""
LacksVideoUrl(body) == "videoUrl" \notin DOMAIN body \/ body.videoUrl = ""

\* C30: a POST to /api/transcribe whose body has no videoUrl (missing or
\* empty) is answered with status 400 and the error "Video URL is required",
\* and no request is sent to the analysis service for it.
C30_MissingUrlRejected ==
    \A i \in 1..Len(analyses) :
        LacksVideoUrl(analyses[i].body)
        => /\ analyses[i].backendCalls = <<>>
           /\ analyses[i].backendResponse = None
           /\ analyses[i].phase \in {"sent", "responded"}
           /\ analyses[i].phase = "responded"
              => /\ IsSome(analyses[i].response)
                 /\ Get(analyses[i].response).status = 400
                 /\ Get(analyses[i].response).body = Some([error |-> "Video URL is required"])

\* A request without the key and a request with an empty URL have both been
\* answered with 400 and no backend call
C30_Witness ==
    /\ Len(analyses) = 2
    /\ "videoUrl" \notin DOMAIN analyses[1].body
    /\ "videoUrl" \in DOMAIN analyses[2].body /\ analyses[2].body.videoUrl = ""
    /\ \A i \in 1..2 :
          /\ analyses[i].phase = "responded"
          /\ Get(analyses[i].response).status = 400
          /\ analyses[i].backendCalls = <<>>

====
